---- MODULE Spec2Model ----
(***************************************************************************)
(* Behaviour of js/main.js, the page script of the portfolio site: the     *)
(* listeners wired by initializePortfolio and the handlers they run, plus  *)
(* the two exported utilities getBreakpoint and debounce.                  *)
(*                                                                         *)
(* Every handler runs to completion on the page's main thread, so each     *)
(* handler is one action.  The variable lastEvt records the event that the *)
(* last step dispatched together with what its handler did with it         *)
(* (preventDefault, link.click, ...); the claims about "after an event"    *)
(* are invariants over lastEvt.                                            *)
(***************************************************************************)
EXTENDS Integers, Sequences, FiniteSets, TLC

VARIABLES
    \* ---- browser ----
    loaded,           \* DOMContentLoaded has been dispatched
    initError,        \* initializePortfolio ended with an exception
    listeners,        \* registered (target, event type) pairs
    now,              \* Date.now(), in ms
    timers,           \* pending setTimeout callbacks
    nextTimerId,      \* next handle returned by setTimeout
    lastEvt,          \* the event dispatched by the last step and its outcome
    \* ---- page markup ----
    hasIO,            \* 'IntersectionObserver' in window
    hasHeader,        \* document.querySelector('.header') is not null
    hasBack,          \* document.querySelector('.back-link') is not null
    cardHasLink,      \* card -> card.querySelector('.project-link') not null
    gridHasLink,      \* sequence over the grid items: item has a .grid-link
    ids,              \* the id attributes (character sequences) in the page
    \* ---- lazy images and image errors ----
    src,              \* img -> src attribute
    dataSrc,          \* img -> data-src attribute
    lazy,             \* img -> classList contains 'lazy'
    observed,         \* the targets of imageObserver
    display,          \* img -> style.display
    dom,              \* the children of the images' parent, in order
    loading,          \* img -> a fetch of the current src is in flight
    reported,         \* img -> whether it was reported as intersecting, and
                      \* the data-src it had at the first such report (history)
    \* ---- header scroller ----
    innerWidth,       \* window.innerWidth
    pageYOffset,      \* window.pageYOffset
    lastScrollTop,    \* the closure variable of the scroll listener
    headerTransform,  \* header.style.transform
    scrollLog,        \* the scroll events so far: offset and width (history)
    \* ---- anchors ----
    scrollCalls,      \* the scrollIntoView calls issued so far
    \* ---- cards ----
    touchStartTime, touchStartY, isTouchScrolling,   \* card -> closure variable
    fingers,          \* card -> number of touches currently down on it
    lastStart,        \* card -> time and y of its latest touchstart (history)
    maxDev,           \* card -> largest |y - start y| moved since then (history)
    tapsSince,        \* card -> link activations by touchend since then (history)
    \* ---- grid ----
    focus,            \* document.activeElement: kind and index of the element
    \* ---- pdf links ----
    textContent,      \* pdf link -> its visible text
    \* ---- debounce ----
    wait,             \* the wait argument of debounce
    timeout,          \* the closure variable of debounce (0: undefined)
    debLog            \* calls of the debounced function and invocations of
                      \* func, in order, with time and argument (history)

browserVars == <<loaded, initError, listeners, now, timers, nextTimerId, lastEvt>>
pageVars    == <<hasIO, hasHeader, hasBack, cardHasLink, gridHasLink, ids>>
imgVars     == <<src, dataSrc, lazy, observed, display, dom, loading, reported>>
scrollVars  == <<innerWidth, pageYOffset, lastScrollTop, headerTransform, scrollLog>>
cardVars    == <<touchStartTime, touchStartY, isTouchScrolling, fingers, lastStart,
                maxDev, tapsSince>>
debVars     == <<wait, timeout, debLog>>

vars == <<browserVars, pageVars, imgVars, scrollVars, scrollCalls, cardVars,
          focus, textContent, debVars>>

----------------------------------------------------------------------------
(* Bounds of the model *)

MaxScrolls == 4      \* scroll events per run
MaxGrid == 5         \* grid items in the page
MaxScrollCalls == 3  \* scrollIntoView calls per run
MaxFingers == 2      \* simultaneous touches on one card
MaxElapsed == 500    \* milliseconds a run of touches lasts
MaxTimers == 3       \* setTimeout calls per run
PdfHorizon == 2500   \* milliseconds a run of pdf clicks lasts
DebHorizon == 600    \* milliseconds a run of debounced calls lasts
StartTime == 1000    \* Date.now() when the page is loaded

Cards == {1, 2}
Imgs == {1, 2}

Body == [kind |-> "body", id |-> 0]    \* nothing in particular has the focus
Absent == "absent"            \* a missing attribute / undefined
NoEvt == [type |-> "none"]

----------------------------------------------------------------------------
(* Listener registration: initializePortfolio *)

L(kind, id, type) == [kind |-> kind, id |-> id, type |-> type]

Anchors == {1, 2, 3, 4, 5}
PdfLinks == {1, 2}

\* The fragment links of the page, as character sequences:
\* "#", "#section-2", "#2024", "#missing-id" and "#top".
Top == <<"t","o","p">>
Section2 == <<"s","e","c","t","i","o","n","-","2">>
Year == <<"2","0","2","4">>
MissingId == <<"m","i","s","s","i","n","g","-","i","d">>
Href == <<  <<"#">>, <<"#">> \o Section2, <<"#">> \o Year, <<"#">> \o MissingId,
            <<"#">> \o Top >>

GridIdx(ghl) == DOMAIN ghl
GridLen(ghl) == Cardinality(DOMAIN ghl)

\* Each setup function yields whether it threw, and what it registered.
setupImageLazyLoading(io, lz) ==
    [threw |-> FALSE, ls |-> {},
     observed |-> IF io THEN {i \in Imgs : lz[i]} ELSE {}]

setupResponsiveNavigation(hdr) ==
    [threw |-> FALSE,
     ls |-> IF ~hdr THEN {} ELSE {L("window", 0, "scroll")}]

setupSmoothScrolling ==
    [threw |-> FALSE, ls |-> {L("a", a, "click") : a \in Anchors}]

CardListeners(c) ==
    {L("card", c, t) : t \in {"keydown", "touchstart", "touchmove", "touchend"}}

setupProjectCardInteractions(chl) ==
    [threw |-> FALSE,
     ls |-> UNION {IF ~chl[c] THEN {} ELSE CardListeners(c) : c \in Cards}]

\* the Escape listener registered only when there are grid items
setupKeyboardNavigationGridOnly(ghl) ==
    [threw |-> FALSE,
     ls |-> IF GridLen(ghl) > 0
            THEN UNION {IF ~ghl[i] THEN {} ELSE {L("grid", i, "keydown")}
                        : i \in GridIdx(ghl)}
                 \cup {L("document", 0, "keydown")}
            ELSE {}]

setupKeyboardNavigation(ghl) ==
    [threw |-> FALSE,
     ls |-> (IF GridLen(ghl) > 0
             THEN UNION {IF ~ghl[i] THEN {} ELSE {L("grid", i, "keydown")}
                         : i \in GridIdx(ghl)}
             ELSE {})
            \cup {L("document", 0, "keydown")}]

setupErrorHandling ==
    [threw |-> FALSE,
     ls |-> {L("img", i, "error") : i \in Imgs}
            \cup {L("pdf", k, "click") : k \in PdfLinks}]

\* Run the setup functions in order; an exception ends the run.
RECURSIVE RunSetups(_, _)
RunSetups(steps, acc) ==
    IF steps = <<>> \/ acc.threw THEN acc
    ELSE RunSetups(Tail(steps),
                   [threw |-> Head(steps).threw,
                    ls |-> acc.ls \cup Head(steps).ls])

initializePortfolio(io, lz, hdr, chl, ghl) ==
    LET lazyLoading == setupImageLazyLoading(io, lz)
        run == RunSetups(<<lazyLoading,
                           setupResponsiveNavigation(hdr),
                           setupSmoothScrolling,
                           setupProjectCardInteractions(chl),
                           setupKeyboardNavigation(ghl),
                           setupErrorHandling>>,
                         [threw |-> FALSE, ls |-> {}])
    IN  [threw |-> run.threw, ls |-> run.ls, observed |-> lazyLoading.observed]

\* item.setAttribute('tabindex', '0') is what makes a grid item focusable
Tabindex(ghl, i) == i \in GridIdx(ghl) /\ ghl[i]

----------------------------------------------------------------------------
(* Initial states, by part of the page *)

ImgNode(i) == [tag |-> "img", id |-> i, cls |-> "", text |-> ""]

PageFull ==
    /\ hasIO = TRUE /\ hasHeader = TRUE /\ hasBack = TRUE
    /\ cardHasLink = [c \in Cards |-> TRUE]
    /\ gridHasLink = [i \in 0..2 |-> TRUE]
    /\ ids = {Section2, Year}

ImgsPlain ==
    /\ src = [i \in Imgs |-> "photo.jpg"]
    /\ dataSrc = [i \in Imgs |-> Absent]
    /\ lazy = [i \in Imgs |-> FALSE]

ImgsRest ==
    /\ display = [i \in Imgs |-> ""]
    /\ dom = <<ImgNode(1), ImgNode(2)>>
    /\ loading = [i \in Imgs |-> src[i] # Absent]
    /\ reported = [i \in Imgs |-> [seen |-> FALSE, deferred |-> Absent]]

ScrollStart ==
    /\ pageYOffset = 0 /\ lastScrollTop = 0
    /\ headerTransform = "" /\ scrollLog = <<>>

TouchStart ==
    /\ touchStartTime = [c \in Cards |-> 0]
    /\ touchStartY = [c \in Cards |-> 0]
    /\ isTouchScrolling = [c \in Cards |-> FALSE]
    /\ fingers = [c \in Cards |-> 0]
    /\ lastStart = [c \in Cards |-> Absent]
    /\ maxDev = [c \in Cards |-> 0]
    /\ tapsSince = [c \in Cards |-> 0]

OtherStart ==
    /\ scrollCalls = <<>>
    /\ focus = Body
    /\ textContent = [k \in PdfLinks |-> "Resume"]
    /\ timeout = 0 /\ debLog = <<>>

BrowserStart ==
    /\ now = StartTime /\ timers = {} /\ nextTimerId = 1 /\ lastEvt = NoEvt

\* the page after DOMContentLoaded
Loaded ==
    LET init == initializePortfolio(hasIO, lazy, hasHeader, cardHasLink, gridHasLink)
    IN  /\ loaded = TRUE /\ initError = init.threw
        /\ listeners = init.ls /\ observed = init.observed

----------------------------------------------------------------------------
(* Responsive header: the scroll listener of setupResponsiveNavigation *)

MobileWidth == 768
HideThreshold == 100
Hidden == "translateY(-100%)"
Shown == "translateY(0)"

Offsets == {0, 50, 100, 101, 120, 150}
Widths == {MobileWidth, MobileWidth + 1}

\* window.pageYOffset || document.documentElement.scrollTop
ReadScrollTop(pageY, docTop) == IF pageY # 0 THEN pageY ELSE docTop

\* the header rule with the direction compared by >= instead of >
HeaderTransformNotUp(width, scrollTop, last) ==
    IF width <= MobileWidth
    THEN IF scrollTop >= last /\ scrollTop > HideThreshold THEN Hidden ELSE Shown
    ELSE Shown

\* the header rule without the minimum offset
HeaderTransformNoThreshold(width, scrollTop, last) ==
    IF width <= MobileWidth
    THEN IF scrollTop > last THEN Hidden ELSE Shown
    ELSE Shown

\* the header rule without the test of the viewport width
HeaderTransformAnyWidth(width, scrollTop, last) ==
    IF scrollTop > last /\ scrollTop > HideThreshold THEN Hidden ELSE Shown

HeaderTransformFor(width, scrollTop, last) ==
    IF width <= MobileWidth
    THEN IF scrollTop > last /\ scrollTop > HideThreshold THEN Hidden ELSE Shown
    ELSE Shown

\* the window scrolls to offset y and the scroll event is dispatched
Scroll(y) ==
    /\ loaded /\ L("window", 0, "scroll") \in listeners
    /\ Len(scrollLog) < MaxScrolls
    /\ pageYOffset' = y
    /\ LET scrollTop == ReadScrollTop(y, y)
       IN  /\ headerTransform' = HeaderTransformFor(innerWidth, scrollTop, lastScrollTop)
           /\ lastScrollTop' = scrollTop
    /\ scrollLog' = Append(scrollLog, [offset |-> y, width |-> innerWidth])
    /\ lastEvt' = [type |-> "scroll", offset |-> y, width |-> innerWidth,
                   prev |-> IF scrollLog = <<>> THEN 0
                            ELSE scrollLog[Len(scrollLog)].offset]
    /\ UNCHANGED <<loaded, initError, listeners, now, timers, nextTimerId>>
    /\ UNCHANGED <<pageVars, imgVars, innerWidth, scrollCalls, cardVars,
                   focus, textContent, debVars>>

\* the viewport is resized or rotated; the script has no resize listener
Resize(w) ==
    /\ loaded /\ w # innerWidth
    /\ innerWidth' = w
    /\ lastEvt' = [type |-> "resize", width |-> w]
    /\ UNCHANGED <<loaded, initError, listeners, now, timers, nextTimerId>>
    /\ UNCHANGED <<pageVars, imgVars, pageYOffset, lastScrollTop, headerTransform,
                   scrollLog, scrollCalls, cardVars, focus, textContent, debVars>>

InitScroll ==
    /\ PageFull /\ ImgsPlain /\ ImgsRest /\ ScrollStart /\ TouchStart /\ OtherStart
    /\ BrowserStart /\ wait = 1
    /\ innerWidth \in Widths
    /\ Loaded

NextScroll == (\E y \in Offsets : Scroll(y)) \/ (\E w \in Widths : Resize(w))

SpecScroll == InitScroll /\ [][NextScroll]_vars

IsPrefix(s, t) == Len(s) <= Len(t) /\ \A i \in 1..Len(s) : s[i] = t[i]

\* C3: at width <= 768 a scroll event hides the header iff its offset is
\* greater than the offset recorded at the preceding scroll event and greater
\* than 100, and shows it otherwise; the recorded offset becomes the event's
\* offset at every width; [0, 50, 150, 120] gives shown, shown, hidden, shown.
C3_HeaderFollowsScroll ==
    lastEvt.type = "scroll" =>
        /\ lastScrollTop = lastEvt.offset
        /\ lastEvt.width <= 768 =>
             /\ headerTransform = Hidden
                  <=> (lastEvt.offset > lastEvt.prev /\ lastEvt.offset > 100)
             /\ headerTransform \in {Hidden, Shown}
        /\ LET offs == [i \in 1..Len(scrollLog) |-> scrollLog[i].offset]
           IN  (/\ \A i \in 1..Len(scrollLog) : scrollLog[i].width <= 768
                /\ IsPrefix(offs, <<0, 50, 150, 120>>))
               => headerTransform = <<Shown, Shown, Hidden, Shown>>[Len(offs)]

C3_Witness ==
    /\ lastEvt.type = "scroll"
    /\ [i \in 1..Len(scrollLog) |-> scrollLog[i].offset] = <<0, 50, 150, 120>>
    /\ \A i \in 1..Len(scrollLog) : scrollLog[i].width <= 768
    /\ headerTransform = Shown

\* C4: at every width greater than 768 the header is shown after every
\* scroll event, whatever the offsets.
C4_DesktopAlwaysShown ==
    (lastEvt.type = "scroll" /\ lastEvt.width > 768) => headerTransform = Shown

C4_Witness ==
    /\ lastEvt.type = "scroll" /\ lastEvt.width > 768
    /\ lastEvt.offset > lastEvt.prev /\ lastEvt.offset > 100
    /\ headerTransform = Shown

----------------------------------------------------------------------------
(* Time *)

Abs(x) == IF x < 0 THEN -x ELSE x
Max(a, b) == IF a >= b THEN a ELSE b

\* dt milliseconds pass with no event
Tick(dt) ==
    /\ loaded
    /\ now' = now + dt
    /\ lastEvt' = [type |-> "tick"]
    /\ UNCHANGED <<loaded, initError, listeners, timers, nextTimerId>>
    /\ UNCHANGED <<pageVars, imgVars, scrollVars, scrollCalls, cardVars,
                   focus, textContent, debVars>>

----------------------------------------------------------------------------
(* Project cards: the touch listeners of setupProjectCardInteractions *)

TapLimit == 500
MoveSlop == 10

StartYs == {100, 130}
Ys == {100, 110, 130}
TouchTicks == {200, 500}

touchstart(c, y, k) ==
    /\ loaded /\ L("card", c, "touchstart") \in listeners
    /\ k >= 1 /\ fingers[c] + k <= MaxFingers
    /\ touchStartTime' = [touchStartTime EXCEPT ![c] = now]
    /\ touchStartY' = [touchStartY EXCEPT ![c] = y]
    /\ isTouchScrolling' = [isTouchScrolling EXCEPT ![c] = FALSE]
    /\ fingers' = [fingers EXCEPT ![c] = @ + k]
    /\ lastStart' = [lastStart EXCEPT ![c] = [t |-> now, y |-> y]]
    /\ maxDev' = [maxDev EXCEPT ![c] = 0]
    /\ tapsSince' = [tapsSince EXCEPT ![c] = 0]
    /\ lastEvt' = [type |-> "touchstart", card |-> c]
    /\ UNCHANGED <<loaded, initError, listeners, now, timers, nextTimerId>>
    /\ UNCHANGED <<pageVars, imgVars, scrollVars, scrollCalls,
                   focus, textContent, debVars>>

MoveIsScroll(touchMoveY, startY) ==
    LET deltaY == Abs(touchMoveY - startY) IN deltaY > MoveSlop

\* a touchmove listener whose flag follows the latest move instead of latching
touchmoveUnlatched(c, y) ==
    /\ loaded /\ L("card", c, "touchmove") \in listeners
    /\ fingers[c] > 0
    /\ isTouchScrolling' =
         [isTouchScrolling EXCEPT ![c] = MoveIsScroll(y, touchStartY[c])]
    /\ maxDev' = [maxDev EXCEPT ![c] = Max(@, Abs(y - lastStart[c].y))]
    /\ lastEvt' = [type |-> "touchmove", card |-> c]
    /\ UNCHANGED <<loaded, initError, listeners, now, timers, nextTimerId>>
    /\ UNCHANGED <<pageVars, imgVars, scrollVars, scrollCalls,
                   touchStartTime, touchStartY, fingers, lastStart, tapsSince,
                   focus, textContent, debVars>>

touchmove(c, y) ==
    /\ loaded /\ L("card", c, "touchmove") \in listeners
    /\ fingers[c] > 0
    /\ isTouchScrolling' =
         [isTouchScrolling EXCEPT ![c] = IF MoveIsScroll(y, touchStartY[c]) THEN TRUE ELSE @]
    /\ maxDev' = [maxDev EXCEPT ![c] = Max(@, Abs(y - lastStart[c].y))]
    /\ lastEvt' = [type |-> "touchmove", card |-> c]
    /\ UNCHANGED <<loaded, initError, listeners, now, timers, nextTimerId>>
    /\ UNCHANGED <<pageVars, imgVars, scrollVars, scrollCalls,
                   touchStartTime, touchStartY, fingers, lastStart, tapsSince,
                   focus, textContent, debVars>>

\* the tap test with the duration compared by <= instead of <
IsTapInclusive(scrolling, touchEndTime, startTime) ==
    LET touchDuration == touchEndTime - startTime
    IN  ~scrolling /\ touchDuration <= TapLimit

IsTap(scrolling, touchEndTime, startTime) ==
    LET touchDuration == touchEndTime - startTime
    IN  ~scrolling /\ touchDuration < TapLimit

\* k of the touches on card c are lifted; a tap activates the card's link
touchend(c, k) ==
    /\ loaded /\ L("card", c, "touchend") \in listeners
    /\ k >= 1 /\ k <= fingers[c]
    /\ fingers' = [fingers EXCEPT ![c] = @ - k]
    /\ LET tap == IsTap(isTouchScrolling[c], now, touchStartTime[c])
       IN  /\ lastEvt' = [type |-> "touchend", card |-> c,
                           prevented |-> tap, clicked |-> IF tap THEN {c} ELSE {}]
           /\ tapsSince' = [tapsSince EXCEPT ![c] = IF tap THEN @ + 1 ELSE @]
    /\ UNCHANGED <<loaded, initError, listeners, now, timers, nextTimerId>>
    /\ UNCHANGED <<pageVars, imgVars, scrollVars, scrollCalls,
                   touchStartTime, touchStartY, isTouchScrolling, lastStart, maxDev,
                   focus, textContent, debVars>>

\* the browser takes the gesture over (touchcancel); the script does not listen
touchcancel(c) ==
    /\ loaded /\ fingers[c] > 0
    /\ fingers' = [fingers EXCEPT ![c] = 0]
    /\ lastEvt' = [type |-> "touchcancel", card |-> c]
    /\ UNCHANGED <<loaded, initError, listeners, now, timers, nextTimerId>>
    /\ UNCHANGED <<pageVars, imgVars, scrollVars, scrollCalls,
                   touchStartTime, touchStartY, isTouchScrolling, lastStart, maxDev, tapsSince,
                   focus, textContent, debVars>>

InitTouch ==
    /\ PageFull /\ ImgsPlain /\ ImgsRest /\ ScrollStart /\ TouchStart /\ OtherStart
    /\ BrowserStart /\ wait = 1
    /\ innerWidth = MobileWidth
    /\ Loaded

NextTouch ==
    \/ \E c \in Cards, y \in StartYs, k \in 1..MaxFingers : touchstart(c, y, k)
    \/ \E c \in Cards, y \in Ys : touchmove(c, y)
    \/ \E c \in Cards, k \in 1..MaxFingers : touchend(c, k)
    \/ \E c \in Cards : touchcancel(c)
    \/ \E dt \in TouchTicks : now + dt <= StartTime + MaxElapsed /\ Tick(dt)

SpecTouch == InitTouch /\ [][NextTouch]_vars

\* C1: a touch-end on a card with a link activates the link, and prevents
\* default, iff no touch-move since the latest touch-start was more than 10
\* away vertically from the start position and less than 500 ms have passed
\* since that touch-start; otherwise it activates nothing.
C1_TapIffStillAndQuick ==
    lastEvt.type = "touchend" =>
        LET c == lastEvt.card
            tap == maxDev[c] <= 10 /\ now - lastStart[c].t < 500
        IN  /\ lastEvt.clicked = (IF tap THEN {c} ELSE {})
            /\ lastEvt.prevented = tap

\* start(y=100, t=0), end(t=200): the link is activated
C1_Witness ==
    /\ lastEvt.type = "touchend" /\ lastEvt.clicked = {lastEvt.card}
    /\ lastStart[lastEvt.card].y = 100
    /\ now - lastStart[lastEvt.card].t = 200
    /\ maxDev[lastEvt.card] = 0

----------------------------------------------------------------------------
(* Timers: setTimeout, clearTimeout and the order in which callbacks run *)

Timer(id, due, kind, target, data) ==
    [id |-> id, due |-> due, kind |-> kind, target |-> target, data |-> data]

\* a clearTimeout that cancels nothing
clearNothing(ts, id) == ts

clearTimeout(ts, id) == {tm \in ts : tm.id # id}

\* tm is the pending timer that runs next: it is due, and no other pending
\* timer is due earlier or was set earlier with the same due time
RunsNext(tm) ==
    /\ tm \in timers /\ tm.due <= now
    /\ \A o \in timers : o.due > tm.due \/ (o.due = tm.due /\ o.id >= tm.id)

\* a due callback was queued before any event that arrives now
NoTimerDue == \A tm \in timers : tm.due > now

----------------------------------------------------------------------------
(* Pdf links: the click listener of setupErrorHandling *)

LoadingDelay == 1000
LoadingText == "Loading..."
OriginalText == "Resume"
PdfTicks == {500}

pdfClick(k) ==
    /\ loaded /\ L("pdf", k, "click") \in listeners
    /\ NoTimerDue /\ nextTimerId <= MaxTimers
    /\ LET originalText == textContent[k]
       IN  /\ textContent' = [textContent EXCEPT ![k] = LoadingText]
           /\ timers' = timers \cup
                {Timer(nextTimerId, now + LoadingDelay, "restore", k, originalText)}
    /\ nextTimerId' = nextTimerId + 1
    /\ lastEvt' = [type |-> "pdfClick", pdf |-> k]
    /\ UNCHANGED <<loaded, initError, listeners, now>>
    /\ UNCHANGED <<pageVars, imgVars, scrollVars, scrollCalls, cardVars,
                   focus, debVars>>

\* the arrow function passed to setTimeout
restoreText(tm) ==
    /\ RunsNext(tm) /\ tm.kind = "restore"
    /\ timers' = timers \ {tm}
    /\ textContent' = [textContent EXCEPT ![tm.target] = tm.data]
    /\ lastEvt' = [type |-> "timeout", pdf |-> tm.target]
    /\ UNCHANGED <<loaded, initError, listeners, now, nextTimerId>>
    /\ UNCHANGED <<pageVars, imgVars, scrollVars, scrollCalls, cardVars,
                   focus, debVars>>

InitPdf ==
    /\ PageFull /\ ImgsPlain /\ ImgsRest /\ ScrollStart /\ TouchStart /\ OtherStart
    /\ BrowserStart /\ wait = 1
    /\ innerWidth = MobileWidth
    /\ Loaded

NextPdf ==
    \/ \E k \in PdfLinks : pdfClick(k)
    \/ \E tm \in timers : restoreText(tm)
    \/ \E dt \in PdfTicks : now + dt <= StartTime + PdfHorizon /\ Tick(dt)

SpecPdf == InitPdf /\ [][NextPdf]_vars

PendingFor(k) == {tm \in timers : tm.kind = "restore" /\ tm.target = k}

\* C2: every activation of a pdf link sets its text to "Loading..." at once,
\* and once no restoration timer of the link is pending its text is again
\* the text it had before the first activation.
C2_TextRestored ==
    /\ lastEvt.type = "pdfClick" => textContent[lastEvt.pdf] = "Loading..."
    /\ \A k \in PdfLinks : PendingFor(k) = {} => textContent[k] = "Resume"

----------------------------------------------------------------------------
(* debounce(func, wait): the returned function and its timer callback *)

Waits == {100, 200}
Args == {"a", "b"}
DebTicks == {100}

\* executedFunction(arg)
executedFunction(arg) ==
    /\ loaded /\ NoTimerDue /\ nextTimerId <= MaxTimers
    /\ timers' = clearTimeout(timers, timeout)
                 \cup {Timer(nextTimerId, now + wait, "later", 0, arg)}
    /\ timeout' = nextTimerId
    /\ nextTimerId' = nextTimerId + 1
    /\ debLog' = Append(debLog, [kind |-> "call", t |-> now, arg |-> arg])
    /\ lastEvt' = [type |-> "call", arg |-> arg]
    /\ UNCHANGED <<loaded, initError, listeners, now>>
    /\ UNCHANGED <<pageVars, imgVars, scrollVars, scrollCalls, cardVars,
                   focus, textContent, wait>>

\* the timer callback later(): clearTimeout(timeout); func(...args)
later(tm) ==
    /\ RunsNext(tm) /\ tm.kind = "later"
    /\ timers' = clearTimeout(timers \ {tm}, timeout)
    /\ debLog' = Append(debLog, [kind |-> "func", t |-> now, arg |-> tm.data])
    /\ lastEvt' = [type |-> "func", arg |-> tm.data]
    /\ UNCHANGED <<loaded, initError, listeners, now, nextTimerId>>
    /\ UNCHANGED <<pageVars, imgVars, scrollVars, scrollCalls, cardVars,
                   focus, textContent, wait, timeout>>

InitDebounce ==
    /\ PageFull /\ ImgsPlain /\ ImgsRest /\ ScrollStart /\ TouchStart /\ OtherStart
    /\ BrowserStart /\ wait \in Waits
    /\ innerWidth = MobileWidth
    /\ Loaded

NextDebounce ==
    \/ \E arg \in Args : executedFunction(arg)
    \/ \E tm \in timers : later(tm)
    \/ \E dt \in DebTicks : now + dt <= StartTime + DebHorizon /\ Tick(dt)

SpecDebounce == InitDebounce /\ [][NextDebounce]_vars

IsCall(i) == debLog[i].kind = "call"
IsFunc(i) == debLog[i].kind = "func"
LaterTimers == {tm \in timers : tm.kind = "later"}

----------------------------------------------------------------------------
(* Images: the observer callback of setupImageLazyLoading and the error *)
(* listener of setupErrorHandling                                        *)

Placeholder ==
    [tag |-> "div", id |-> 0, cls |-> "image-placeholder", text |-> "Image Unavailable"]

\* the test of dataset.src negated
Falsy(attr) == attr = Absent \/ attr = ""

\* if (img.dataset.src): the attribute is present and not the empty string
Truthy(attr) == attr # Absent /\ attr # ""

\* an observer callback that copies the source but leaves the data-src
\* attribute, the lazy class and the observation in place
intersectKeeping(T, I) ==
    /\ loaded /\ T # {} /\ T \subseteq observed /\ I \subseteq T
    /\ LET swap == {i \in I : Truthy(dataSrc[i])}
       IN  /\ src' = [i \in Imgs |-> IF i \in swap THEN dataSrc[i] ELSE src[i]]
           /\ loading' = [i \in Imgs |-> IF i \in swap THEN TRUE ELSE loading[i]]
    /\ reported' = [i \in Imgs |->
                      IF i \in I /\ ~reported[i].seen
                      THEN [seen |-> TRUE, deferred |-> dataSrc[i]]
                      ELSE reported[i]]
    /\ lastEvt' = [type |-> "intersect", targets |-> T, inter |-> I]
    /\ UNCHANGED <<loaded, initError, listeners, now, timers, nextTimerId>>
    /\ UNCHANGED <<pageVars, dataSrc, lazy, observed, display, dom, scrollVars,
                   scrollCalls, cardVars, focus, textContent, debVars>>

\* the observer callback, for entries with targets T of which I intersect
intersect(T, I) ==
    /\ loaded /\ T # {} /\ T \subseteq observed /\ I \subseteq T
    /\ LET swap == {i \in I : Truthy(dataSrc[i])}
       IN  /\ src' = [i \in Imgs |-> IF i \in swap THEN dataSrc[i] ELSE src[i]]
           /\ dataSrc' = [i \in Imgs |-> IF i \in swap THEN Absent ELSE dataSrc[i]]
           /\ lazy' = [i \in Imgs |-> IF i \in swap THEN FALSE ELSE lazy[i]]
           /\ observed' = observed \ swap
           /\ loading' = [i \in Imgs |-> IF i \in swap THEN TRUE ELSE loading[i]]
    /\ reported' = [i \in Imgs |->
                      IF i \in I /\ ~reported[i].seen
                      THEN [seen |-> TRUE, deferred |-> dataSrc[i]]
                      ELSE reported[i]]
    /\ lastEvt' = [type |-> "intersect", targets |-> T, inter |-> I]
    /\ UNCHANGED <<loaded, initError, listeners, now, timers, nextTimerId>>
    /\ UNCHANGED <<pageVars, display, dom, scrollVars, scrollCalls, cardVars,
                   focus, textContent, debVars>>

IndexOf(nodes, node) == CHOOSE p \in 1..Len(nodes) : nodes[p] = node

\* the placeholder appended to the parent instead of inserted before ref
appendChild(nodes, node, ref) == Append(nodes, node)

\* parentNode.insertBefore(node, ref)
insertBefore(nodes, node, ref) ==
    LET p == IndexOf(nodes, ref)
    IN  SubSeq(nodes, 1, p - 1) \o <<node>> \o SubSeq(nodes, p, Len(nodes))

\* the fetch of img i fails and its error event is dispatched
imgError(i) ==
    /\ loaded /\ L("img", i, "error") \in listeners
    /\ loading[i]
    /\ loading' = [loading EXCEPT ![i] = FALSE]
    /\ display' = [display EXCEPT ![i] = "none"]
    /\ dom' = insertBefore(dom, Placeholder, ImgNode(i))
    /\ lastEvt' = [type |-> "error", img |-> i]
    /\ UNCHANGED <<loaded, initError, listeners, now, timers, nextTimerId>>
    /\ UNCHANGED <<pageVars, src, dataSrc, lazy, observed, reported,
                   scrollVars, scrollCalls, cardVars, focus, textContent, debVars>>

InitImages ==
    /\ hasIO \in BOOLEAN /\ hasHeader = TRUE /\ hasBack = TRUE
    /\ cardHasLink = [c \in Cards |-> TRUE]
    /\ gridHasLink = [i \in 0..2 |-> TRUE]
    /\ ids = {Section2, Year}
    /\ src \in [Imgs -> {Absent, "photo.jpg"}]
    /\ dataSrc \in [Imgs -> {Absent, "", "full.jpg"}]
    /\ lazy \in [Imgs -> BOOLEAN]
    /\ ImgsRest /\ ScrollStart /\ TouchStart /\ OtherStart
    /\ BrowserStart /\ wait = 1
    /\ innerWidth = MobileWidth
    /\ Loaded

NextImages ==
    \/ \E T \in SUBSET Imgs, I \in SUBSET Imgs : intersect(T, I)
    \/ \E i \in Imgs : imgError(i)

SpecImages == InitImages /\ [][NextImages]_vars

Swapped(i) ==
    /\ src[i] = reported[i].deferred
    /\ dataSrc[i] = Absent
    /\ ~lazy[i]
    /\ i \notin observed

\* C5 as stated: every image that has a data-src attribute and was reported
\* as intersecting has the deferred value as its src, no data-src attribute,
\* no lazy class, and is not observed.
C5_AnyDataSrc ==
    \A i \in Imgs :
        (reported[i].seen /\ reported[i].deferred # Absent) => Swapped(i)

\* C5, amended: every image that has a non-empty data-src attribute and was
\* reported as intersecting has the deferred value as its src, no data-src
\* attribute, no lazy class, and is not observed.
C5_LazyImageSwapped ==
    \A i \in Imgs :
        (reported[i].seen /\ reported[i].deferred \notin {Absent, ""}) => Swapped(i)

C5_Witness ==
    \E i \in Imgs :
        /\ reported[i].seen /\ reported[i].deferred = "full.jpg"
        /\ src[i] = "full.jpg" /\ lastEvt.type = "intersect"

\* C6: a load-error event on an image hides that image and inserts exactly
\* one placeholder with text "Image Unavailable" immediately before it, and
\* changes no other image and no other node.
C6_ErrorPlaceholder ==
    [][lastEvt'.type = "error" =>
          LET i == lastEvt'.img
              p == IndexOf(dom, ImgNode(i))
          IN  /\ Len(dom') = Len(dom) + 1
              /\ \A q \in 1..(p - 1) : dom'[q] = dom[q]
              /\ dom'[p].tag = "div" /\ dom'[p].text = "Image Unavailable"
              /\ \A q \in p..Len(dom) : dom'[q + 1] = dom[q]
              /\ display'[i] = "none"
              /\ \A j \in Imgs \ {i} : display'[j] = display[j]
              /\ <<src, dataSrc, lazy, observed>>' = <<src, dataSrc, lazy, observed>>
      ]_vars

C6_Witness ==
    /\ lastEvt.type = "error"
    /\ display[lastEvt.img] = "none"
    /\ LET p == IndexOf(dom, ImgNode(lastEvt.img))
       IN  p > 1 /\ dom[p - 1] = Placeholder
    /\ \E j \in Imgs : display[j] = ""

----------------------------------------------------------------------------
(* Anchor links: the click listener of setupSmoothScrolling *)

Null == <<>>
Digits == {"0", "1", "2", "3", "4", "5", "6", "7", "8", "9"}

\* document.querySelector(sel) for an id selector "#name": a name that is
\* empty or starts with a digit is not a CSS identifier and the call throws
\* a SyntaxError; otherwise it yields the element with that id, or null.
querySelector(sel, idset) ==
    LET name == Tail(sel)
    IN  IF name = <<>> \/ name[1] \in Digits
        THEN [threw |-> TRUE, el |-> Null]
        ELSE [threw |-> FALSE, el |-> IF name \in idset THEN name ELSE Null]

\* what the click listener does for a link with this href
AnchorClick(href, idset) ==
    IF href = <<"#">>
    THEN [threw |-> FALSE, prevented |-> FALSE, scrolls |-> <<>>]
    ELSE LET target == querySelector(href, idset)
         IN  IF target.threw
             THEN [threw |-> TRUE, prevented |-> FALSE, scrolls |-> <<>>]
             ELSE IF target.el # Null
             THEN [threw |-> FALSE, prevented |-> TRUE,
                   scrolls |-> << [el |-> target.el, behavior |-> "smooth",
                                   block |-> "start"] >>]
             ELSE [threw |-> FALSE, prevented |-> FALSE, scrolls |-> <<>>]

anchorClick(a) ==
    /\ loaded /\ L("a", a, "click") \in listeners
    /\ Len(scrollCalls) < MaxScrollCalls
    /\ LET r == AnchorClick(Href[a], ids)
       IN  /\ scrollCalls' = scrollCalls \o r.scrolls
           /\ lastEvt' = [type |-> "anchorClick", anchor |-> a, threw |-> r.threw,
                          prevented |-> r.prevented, scrolls |-> r.scrolls]
    /\ UNCHANGED <<loaded, initError, listeners, now, timers, nextTimerId>>
    /\ UNCHANGED <<pageVars, imgVars, scrollVars, cardVars,
                   focus, textContent, debVars>>

InitAnchors ==
    /\ hasIO = TRUE /\ hasHeader = TRUE /\ hasBack = TRUE
    /\ cardHasLink = [c \in Cards |-> TRUE]
    /\ gridHasLink = [i \in 0..2 |-> TRUE]
    /\ ids \in SUBSET {Section2, Year, Top}
    /\ ImgsPlain /\ ImgsRest /\ ScrollStart /\ TouchStart /\ OtherStart
    /\ BrowserStart /\ wait = 1
    /\ innerWidth = MobileWidth
    /\ Loaded

NextAnchors == \E a \in Anchors : anchorClick(a)

SpecAnchors == InitAnchors /\ [][NextAnchors]_vars

\* C7: activating a fragment link does nothing and does not prevent default
\* when the href is "#"; prevents default and issues exactly one smooth
\* scroll to the element, aligned to the top, when an element matching the
\* fragment exists; does not prevent default and issues no scroll when no
\* element matches.
C7_FragmentLinks ==
    lastEvt.type = "anchorClick" =>
        LET href == Href[lastEvt.anchor]
            frag == Tail(href)
        IN  IF href # <<"#">> /\ frag \in ids
            THEN /\ lastEvt.prevented
                 /\ lastEvt.scrolls =
                      << [el |-> frag, behavior |-> "smooth", block |-> "start"] >>
            ELSE /\ ~lastEvt.prevented
                 /\ lastEvt.scrolls = <<>>

----------------------------------------------------------------------------
(* Keyboard: the keydown listeners of setupProjectCardInteractions and of *)
(* setupKeyboardNavigation                                                *)

Keys == {"Enter", " ", "ArrowRight", "ArrowLeft", "Escape", "a"}

Grid(i) == [kind |-> "grid", id |-> i]
Card(c) == [kind |-> "card", id |-> c]

\* clicked is the sequence of click() calls the listener makes
NoKeyEffect == [prevented |-> FALSE, clicked |-> <<>>, focusTo |-> -1]

\* arrow keys that wrap around at the ends of the grid
ArrowTargetWrap(key, index, len) ==
    IF key = "ArrowRight" THEN (index + 1) % len
    ELSE IF key = "ArrowLeft" THEN (index + len - 1) % len
    ELSE -1

\* the index of the item an arrow key moves the focus to, -1 for none
ArrowTarget(key, index, len) ==
    IF key = "ArrowRight" /\ index < len - 1 THEN index + 1
    ELSE IF key = "ArrowLeft" /\ index > 0 THEN index - 1
    ELSE -1

\* a card listener that answers Enter only
CardKeydownEnterOnly(key, c) ==
    IF key = "Enter"
    THEN [prevented |-> TRUE, clicked |-> <<Card(c)>>, focusTo |-> -1]
    ELSE NoKeyEffect

\* the keydown listener of a card
CardKeydown(key, c) ==
    IF key = "Enter" \/ key = " "
    THEN [prevented |-> TRUE, clicked |-> <<Card(c)>>, focusTo |-> -1]
    ELSE NoKeyEffect

\* the keydown listener of the grid item at index
GridKeydown(key, index, len) ==
    LET activate == key = "Enter" \/ key = " "
        to == ArrowTarget(key, index, len)
    IN  [prevented |-> activate \/ to # -1,
         clicked |-> IF activate THEN <<Grid(index)>> ELSE <<>>,
         focusTo |-> to]

BackLink == [kind |-> "back", id |-> 0]

\* a document listener that does not look at the key
DocumentKeydownAnyKey(key, back) ==
    IF back THEN <<BackLink>> ELSE <<>>

\* the keydown listener of the document
DocumentKeydown(key, back) ==
    IF key = "Escape" /\ back THEN <<BackLink>> ELSE <<>>

Focusable(el) ==
    \/ el = Body
    \/ el.kind = "card" /\ el.id \in Cards /\ cardHasLink[el.id]
    \/ el.kind = "grid" /\ Tabindex(gridHasLink, el.id)

\* the user moves the focus with Tab or the pointer
focusOn(el) ==
    /\ loaded /\ Focusable(el) /\ el # focus
    /\ focus' = el
    /\ lastEvt' = [type |-> "focus"]
    /\ UNCHANGED <<loaded, initError, listeners, now, timers, nextTimerId>>
    /\ UNCHANGED <<pageVars, imgVars, scrollVars, scrollCalls, cardVars,
                   textContent, debVars>>

\* a key goes down on the focused element: the listener of that element
\* runs, then the event bubbles to the listener of the document
keydown(key) ==
    /\ loaded
    /\ LET own == IF L(focus.kind, focus.id, "keydown") \notin listeners
                  THEN NoKeyEffect
                  ELSE IF focus.kind = "card" THEN CardKeydown(key, focus.id)
                  ELSE GridKeydown(key, focus.id, GridLen(gridHasLink))
           doc == IF L("document", 0, "keydown") \in listeners
                  THEN DocumentKeydown(key, hasBack) ELSE <<>>
       IN  /\ focus' = IF own.focusTo # -1 /\ Focusable(Grid(own.focusTo))
                       THEN Grid(own.focusTo) ELSE focus
           /\ lastEvt' = [type |-> "keydown", key |-> key, target |-> focus,
                          prevented |-> own.prevented,
                          clicked |-> own.clicked \o doc]
    /\ UNCHANGED <<loaded, initError, listeners, now, timers, nextTimerId>>
    /\ UNCHANGED <<pageVars, imgVars, scrollVars, scrollCalls, cardVars,
                   textContent, debVars>>

InitKeyboard ==
    /\ hasIO = TRUE /\ hasHeader = TRUE /\ hasBack \in BOOLEAN
    /\ cardHasLink = [c \in Cards |-> TRUE]
    /\ \E n \in 0..MaxGrid : gridHasLink \in [0..(n - 1) -> BOOLEAN]
    /\ ids = {Section2, Year}
    /\ ImgsPlain /\ ImgsRest /\ ScrollStart /\ TouchStart /\ OtherStart
    /\ BrowserStart /\ wait = 1
    /\ innerWidth = MobileWidth
    /\ Loaded

NextKeyboard ==
    \/ \E el \in {Body} \cup {Card(c) : c \in Cards} \cup {Grid(i) : i \in 0..MaxGrid} :
          focusOn(el)
    \/ \E key \in Keys : keydown(key)

SpecKeyboard == InitKeyboard /\ [][NextKeyboard]_vars

AllGridLinks == \A i \in GridIdx(gridHasLink) : gridHasLink[i]

\* C8: in a grid of n items that all contain a link, ArrowRight on item
\* i < n-1 focuses item i+1 and prevents default, ArrowLeft on item i > 0
\* focuses item i-1 and prevents default, ArrowRight on the last item and
\* ArrowLeft on the first leave the focus where it is; the focused position
\* stays within 0..n-1 and never wraps around.
C8_ArrowNavigation ==
    AllGridLinks =>
        LET n == GridLen(gridHasLink) IN
        /\ focus.kind = "grid" => focus.id \in 0..(n - 1)
        /\ (lastEvt.type = "keydown" /\ lastEvt.target.kind = "grid") =>
             LET i == lastEvt.target.id IN
             /\ (lastEvt.key = "ArrowRight" /\ i < n - 1)
                   => focus = Grid(i + 1) /\ lastEvt.prevented
             /\ (lastEvt.key = "ArrowLeft" /\ i > 0)
                   => focus = Grid(i - 1) /\ lastEvt.prevented
             /\ (lastEvt.key = "ArrowRight" /\ i = n - 1) => focus = Grid(i)
             /\ (lastEvt.key = "ArrowLeft" /\ i = 0) => focus = Grid(i)

\* ArrowRight on the 2nd of 5 items has moved the focus to the 3rd
C8_Witness ==
    /\ AllGridLinks /\ GridLen(gridHasLink) = 5
    /\ lastEvt.type = "keydown" /\ lastEvt.key = "ArrowRight"
    /\ lastEvt.target = Grid(1) /\ focus = Grid(2)

----------------------------------------------------------------------------
(* Page load: the DOMContentLoaded listener *)

DOMContentLoaded ==
    /\ ~loaded
    /\ LET init == initializePortfolio(hasIO, lazy, hasHeader, cardHasLink, gridHasLink)
       IN  /\ initError' = init.threw
           /\ listeners' = init.ls
           /\ observed' = init.observed
    /\ loaded' = TRUE
    /\ lastEvt' = [type |-> "DOMContentLoaded"]
    /\ UNCHANGED <<now, timers, nextTimerId>>
    /\ UNCHANGED <<pageVars, src, dataSrc, lazy, display, dom, loading, reported,
                   scrollVars, scrollCalls, cardVars, focus, textContent, debVars>>

InitLoad ==
    /\ hasIO \in BOOLEAN /\ hasHeader \in BOOLEAN /\ hasBack \in BOOLEAN
    /\ cardHasLink \in [Cards -> BOOLEAN]
    /\ \E n \in 0..MaxGrid : gridHasLink \in [0..(n - 1) -> BOOLEAN]
    /\ ids = {Section2, Year}
    /\ src = [i \in Imgs |-> Absent]
    /\ dataSrc = [i \in Imgs |-> "full.jpg"]
    /\ lazy \in [Imgs -> BOOLEAN]
    /\ ImgsRest /\ ScrollStart /\ TouchStart /\ OtherStart
    /\ BrowserStart /\ wait = 1
    /\ innerWidth = MobileWidth
    /\ loaded = FALSE /\ initError = FALSE /\ listeners = {} /\ observed = {}

NextLoad == DOMContentLoaded

SpecLoad == InitLoad /\ [][NextLoad]_vars

On(kind, id, type) == L(kind, id, type) \in listeners

\* C10: whatever page elements are missing (header, a card's link, all grid
\* items, a grid item's link, the back link, IntersectionObserver),
\* initialization completes without an error, skips the behaviour of what is
\* missing, and wires everything else: the other cards and grid items, the
\* Escape listener even with no grid items, the image and pdf listeners.
C10_InitSkipsOnlyMissing ==
    loaded =>
        /\ ~initError
        /\ On("window", 0, "scroll") <=> hasHeader
        /\ \A c \in Cards :
              \A t \in {"keydown", "touchstart", "touchmove", "touchend"} :
                 On("card", c, t) <=> cardHasLink[c]
        /\ \A i \in GridIdx(gridHasLink) : On("grid", i, "keydown") <=> gridHasLink[i]
        /\ On("document", 0, "keydown")
        /\ \A i \in Imgs : On("img", i, "error")
        /\ \A k \in PdfLinks : On("pdf", k, "click")
        /\ \A a \in Anchors : On("a", a, "click")
        /\ observed = (IF hasIO THEN {i \in Imgs : lazy[i]} ELSE {})

\* a page with no header, no grid items, no back link, no observer and a
\* card without a link next to a card with one
C10_Witness ==
    /\ loaded /\ ~hasHeader /\ ~hasBack /\ ~hasIO
    /\ GridLen(gridHasLink) = 0
    /\ ~cardHasLink[1] /\ cardHasLink[2]
    /\ On("card", 2, "touchend") /\ On("document", 0, "keydown")

----------------------------------------------------------------------------
(* Escape and activation keys *)

\* the number of click() calls on link in a sequence of calls
Count(calls, link) == Cardinality({n \in 1..Len(calls) : calls[n] = link})

\* C11: a press of Escape, whatever has the focus, activates the back link
\* exactly once when the page has a back link and does nothing when it has
\* none; no other key activates the back link.
C11_EscapeGoesBack ==
    lastEvt.type = "keydown" =>
        Count(lastEvt.clicked, BackLink)
            = (IF lastEvt.key = "Escape" /\ hasBack THEN 1 ELSE 0)

\* Escape pressed on a focused grid item
C11_Witness ==
    /\ lastEvt.type = "keydown" /\ lastEvt.key = "Escape"
    /\ lastEvt.target.kind = "grid" /\ hasBack
    /\ lastEvt.clicked = <<BackLink>>

OwnLinks == {Card(c) : c \in Cards} \cup {Grid(i) : i \in GridIdx(gridHasLink)}

OnItem == lastEvt.type = "keydown" /\ lastEvt.target.kind \in {"card", "grid"}

\* a press of Enter or Space on a card or grid item with a link prevents
\* default and activates that element's link exactly once, and no key press
\* on one element activates the link of another
OwnLinkOnly ==
    /\ lastEvt.key \in {"Enter", " "} =>
          /\ lastEvt.prevented
          /\ Count(lastEvt.clicked, lastEvt.target) = 1
    /\ \A el \in OwnLinks \ {lastEvt.target} : Count(lastEvt.clicked, el) = 0

\* C12 as stated: Enter or Space on a focused card or grid item with a link
\* prevents default and activates its own link exactly once; any other key
\* on a card activates no link; no key press activates another element's link.
C12_AnyOtherKeyNothing ==
    OnItem =>
        /\ OwnLinkOnly
        /\ (lastEvt.target.kind = "card" /\ lastEvt.key \notin {"Enter", " "})
              => lastEvt.clicked = <<>>

\* C12, amended: Enter or Space on a focused card or grid item with a link
\* prevents default and activates its own link exactly once; any other key
\* on a card activates no card or grid link (Escape still activates the back
\* link when there is one); no key press activates another element's link.
C12_ActivationKeys ==
    OnItem =>
        /\ OwnLinkOnly
        /\ (lastEvt.target.kind = "card" /\ lastEvt.key \notin {"Enter", " "})
              => \A el \in OwnLinks : Count(lastEvt.clicked, el) = 0

\* Space pressed on a focused card
C12_Witness ==
    /\ lastEvt.type = "keydown" /\ lastEvt.key = " "
    /\ lastEvt.target = Card(1) /\ lastEvt.prevented
    /\ lastEvt.clicked = <<Card(1)>>

----------------------------------------------------------------------------
(* PortfolioUtils.getBreakpoint *)

MobileMax == 480
BpWidths == {0, 320, 1024, 1920} \cup (470..490) \cup (758..778)

\* the classifier with the mobile limit compared by < instead of <=
getBreakpointExclusive(width) ==
    IF width < MobileMax THEN "mobile"
    ELSE IF width <= MobileWidth THEN "tablet"
    ELSE "desktop"

getBreakpoint(width) ==
    IF width <= MobileMax THEN "mobile"
    ELSE IF width <= MobileWidth THEN "tablet"
    ELSE "desktop"

\* the hosting page calls PortfolioUtils.getBreakpoint()
callGetBreakpoint ==
    /\ loaded
    /\ lastEvt' = [type |-> "getBreakpoint", width |-> innerWidth,
                   result |-> getBreakpoint(innerWidth)]
    /\ UNCHANGED <<loaded, initError, listeners, now, timers, nextTimerId>>
    /\ UNCHANGED <<pageVars, imgVars, scrollVars, scrollCalls, cardVars,
                   focus, textContent, debVars>>

InitBreakpoint ==
    /\ PageFull /\ ImgsPlain /\ ImgsRest /\ ScrollStart /\ TouchStart /\ OtherStart
    /\ BrowserStart /\ wait = 1
    /\ innerWidth \in BpWidths
    /\ Loaded

NextBreakpoint == callGetBreakpoint \/ (\E w \in BpWidths : Resize(w))

SpecBreakpoint == InitBreakpoint /\ [][NextBreakpoint]_vars

\* C13: getBreakpoint returns 'mobile' for every width <= 480, 'tablet' for
\* every width with 480 < width <= 768 and 'desktop' for every width > 768;
\* 480 is mobile and 768 is tablet.
C13_Breakpoints ==
    lastEvt.type = "getBreakpoint" =>
        LET w == lastEvt.width
            r == lastEvt.result
        IN  /\ w <= 480 => r = "mobile"
            /\ (480 < w /\ w <= 768) => r = "tablet"
            /\ w > 768 => r = "desktop"
            /\ r \in {"mobile", "tablet", "desktop"}

\* the classifier called at the width 480
C13_Witness ==
    /\ lastEvt.type = "getBreakpoint"
    /\ lastEvt.width = 480 /\ lastEvt.result = "mobile"

----------------------------------------------------------------------------
(* Images over a whole run *)

\* the number of placeholders that stand right before image i
RECURSIVE PlaceholdersUpTo(_)
PlaceholdersUpTo(p) ==
    IF p = 0 \/ dom[p] # Placeholder THEN 0 ELSE 1 + PlaceholdersUpTo(p - 1)

PlaceholdersFor(i) == PlaceholdersUpTo(IndexOf(dom, ImgNode(i)) - 1)

\* C14: over any sequence of events, also repeated load errors of the same
\* image, there is never more than one placeholder inserted for an image.
C14_OnePlaceholder ==
    \A i \in Imgs : PlaceholdersFor(i) <= 1

\* C18: once an image is loaded (source swapped in, data-src and lazy class
\* removed, unobserved) no later event puts back the data-src attribute or
\* the lazy class or observes it again, and its source is swapped at most
\* once: a swap needs the data-src attribute and the observation, and
\* removes both.
C18_LazyStateMonotone ==
    [][\A i \in Imgs :
          /\ dataSrc[i] = Absent => dataSrc'[i] = Absent
          /\ ~lazy[i] => ~lazy'[i]
          /\ i \notin observed => i \notin observed'
          /\ src'[i] # src[i] =>
                /\ dataSrc[i] # Absent /\ i \in observed
                /\ src'[i] = dataSrc[i]
                /\ dataSrc'[i] = Absent /\ ~lazy'[i] /\ i \notin observed'
      ]_vars

\* an image that was swapped earlier is still loaded after a later
\* intersection event for the other image and after its own load error
C18_Witness ==
    \E i \in Imgs :
        /\ reported[i].seen /\ reported[i].deferred = "full.jpg"
        /\ Swapped(i)
        /\ display[i] = "none"
        /\ lastEvt.type = "intersect" /\ i \notin lastEvt.targets

----------------------------------------------------------------------------
(* The header between scroll events *)

\* C15: in every reachable state in which the viewport is wider than 768
\* the header is not hidden, also when the width changes between scroll
\* events after the header was hidden at a width of at most 768.
C15_WideNeverHidden ==
    innerWidth > 768 => headerTransform # Hidden

\* C19: whenever the header is hidden, after any scroll events and width
\* changes, the last recorded scroll offset is greater than 100, which is
\* the offset of the most recent scroll event.
C19_HiddenOnlyBelowThreshold ==
    headerTransform = Hidden =>
        /\ lastScrollTop > 100
        /\ scrollLog # <<>>
        /\ scrollLog[Len(scrollLog)].offset = lastScrollTop

\* the header is hidden and the viewport has been resized since
C19_Witness ==
    /\ headerTransform = Hidden
    /\ lastEvt.type = "resize"
    /\ lastScrollTop = 101

----------------------------------------------------------------------------
(* The touch state of a card over a whole run *)

TouchTypes == {"touchstart", "touchmove", "touchend", "touchcancel"}

\* C16: the scrolling flag of a card is latched: a touch-move more than 10
\* away from the start position sets it, it stays true through later
\* touch-moves and through touch-end, and only a touch-start on that card
\* resets it; touch events on one card never change the start time, start
\* position or scrolling flag of another card.
C16_ScrollingLatched ==
    [][\A c \in Cards :
          \* the flag is set exactly when some move since the touch-start was far
          /\ (lastEvt'.type = "touchmove" /\ lastEvt'.card = c)
                => (isTouchScrolling'[c] <=> maxDev'[c] > 10)
          \* only a touch-start on the card resets the flag
          /\ (isTouchScrolling[c] /\ ~isTouchScrolling'[c])
                => (lastEvt'.type = "touchstart" /\ lastEvt'.card = c)
          \* only a touch-start on the card changes its start time and position
          /\ <<touchStartTime[c], touchStartY[c]>>' # <<touchStartTime[c], touchStartY[c]>>
                => (lastEvt'.type = "touchstart" /\ lastEvt'.card = c)
          \* a touch event on another card changes nothing of this card
          /\ (lastEvt'.type \in TouchTypes /\ lastEvt'.card # c)
                => <<touchStartTime[c], touchStartY[c], isTouchScrolling[c]>>'
                     = <<touchStartTime[c], touchStartY[c], isTouchScrolling[c]>>
      ]_vars

\* a card whose flag is still set after a touch-end that followed a far
\* move, while the other card has been touched and has its flag clear
C16_Witness ==
    /\ lastEvt.type = "touchend" /\ lastEvt.card = 1
    /\ isTouchScrolling[1] /\ maxDev[1] > 10
    /\ touchStartY[2] # 0 /\ ~isTouchScrolling[2]

\* C17: each touch-start on a card leads to at most one link activation by
\* touch-end events: a second touch-end with no touch-start in between does
\* not activate the link again, so the activations never outnumber the
\* touch-starts.
C17_OneTapPerTouchStart ==
    \A c \in Cards : tapsSince[c] <= 1

====
